---- MODULE Spec2Model ----
(***************************************************************************)
(* Model of DecommitterOracle (core/lib/vm/src/old_vm/oracles/             *)
(* decommitter.rs): the bytecode cache `known_bytecodes`, the ledger       *)
(* `decommitted_code_hashes`, the request log `decommitment_requests`,     *)
(* their joint rollback, and the operations populate, get_bytecode and     *)
(* decommit_into_memory.                                                   *)
(*                                                                         *)
(* Scaling.  A U256 code hash is modelled as a 5-digit base-16 number      *)
(* d1 d2 d3 d4 d5 (instead of 32 base-256 bytes): d1 is the version byte,  *)
(* d2 is zero, d3 d4 hold the bytecode length in words (big-endian, bytes  *)
(* 2 and 3 of the real hash) and d5 stands for the digest tail.  A U256    *)
(* word of bytecode is two base-16 digits instead of 32 bytes.             *)
(*                                                                         *)
(* Option<T> is modelled as a sequence: <<>> is None, <<x>> is Some(x).    *)
(* A HashMap is a function whose DOMAIN is its key set.                    *)
(***************************************************************************)
EXTENDS Integers, Sequences, FiniteSets, TLC

(* ----------------------------- bounds ---------------------------------- *)
\* Number of calls (populate, get_bytecode, decommit, checkpoint, rollback) in a run.
MaxSteps == 5
\* Number of checkpoints the driver holds at one time.
MaxCheckpoints == 1

(* ----------------------------- inputs ---------------------------------- *)
\* 0x1002A: length field 2.   0x1001B: length field 1.
Hashes == {65578, 65563}
\* The decommit calls the VM makes: (hash, memory page, timestamp, cycle counter).
DecommitInputs ==
    {<<65578, 1, 5, 7>>, <<65578, 2, 6, 8>>, <<65563, 1, 5, 7>>}
\* Arguments of populate: vectors of (hash, bytecode) pairs.
PopulateInputs ==
    {<<<<65578, <<6>>>>>>, <<<<65578, <<4, 5>>>>>>, <<<<65563, <<4, 5>>>>>>,
     <<<<65563, <<4, 5>>>>, <<65563, <<6>>>>>>}

None == <<>>
Some(x) == <<x>>

VARIABLES
    B,                       \* const generic B: witness mode
    storage,                 \* the database behind StoragePtr<S>: H256 -> Option<Vec<u8>>
    known_bytecodes,         \* HistoryRecorder<HashMap<U256, Vec<U256>>>
    decommitted_code_hashes, \* HistoryRecorder<HashMap<U256, u32>>
    decommitment_requests,   \* HistoryRecorder<Vec<()>>
    checkpoints,             \* markers held by the VM driver, oldest first
    status,                  \* "running", or "aborted" after a panic
    ret,                     \* what the last call returned and did to its collaborators
    loads,                   \* number of load_factory_dep calls per hash
    steps,                   \* number of calls made so far
    interval,                \* per hash: the decommits since the last rollback
    populated,               \* per hash: the bytecode last populated since the last rollback
    got,                     \* per hash: the last get_bytecode result since the last rollback or populate
    forgotten,               \* hashes whose fresh decommit was undone by a rollback, with the page it used
    calls,                   \* number of decommit calls and of rollbacks made so far
    interval_loads,          \* per hash: the load_factory_dep calls since the last rollback
    prev,                    \* the call before the last one: its operation and marker
    trace,                   \* the events of the last decommit_into_memory, in program order
    twin,                    \* a second DecommitterOracle, of the other mode, given the same calls
    seal,                    \* a call of PubDataBytesCriterion::should_seal: arguments and result
    sized                    \* a bytecode and the decommitted_length computed for it

vars == <<B, storage, known_bytecodes, decommitted_code_hashes, decommitment_requests,
          checkpoints, status, ret, loads, steps, interval, populated, got, forgotten,
          calls, interval_loads, prev, trace, twin, seal, sized>>

(* ------------------- History Journal (HistoryRecorder) ------------------ *)
\* HistoryRecorder::default(): an empty value and an empty undo log.
EmptyMap == <<>>
HistoryRecorderDefaultMap == [inner |-> EmptyMap, history |-> <<>>]
HistoryRecorderDefaultVec == [inner |-> <<>>, history |-> <<>>]

MapWithout(m, k) == [x \in (DOMAIN m) \ {k} |-> m[x]]
MapWith(m, k, v) == [x \in (DOMAIN m) \cup {k} |-> IF x = k THEN v ELSE m[x]]
MapGet(m, k) == IF k \in DOMAIN m THEN Some(m[k]) ELSE None

\* insert(key, value): apply the mutation and append the undo record, which
\* remembers the value the key had before (None if it had none).
HistoryInsert(rec, k, v) ==
    [inner |-> MapWith(rec.inner, k, v),
     history |-> Append(rec.history, [key |-> k, prev |-> MapGet(rec.inner, k)])]

\* push(value) on a recorded Vec: the undo record is a pop.
HistoryPush(rec, v) ==
    [inner |-> Append(rec.inner, v), history |-> Append(rec.history, "pop")]

\* The marker of a journal: its position in the undo log.
HistoryCheckpoint(rec) == Len(rec.history)

\* Undo one record of a recorded map.
UndoMap(m, u) == IF u.prev = None THEN MapWithout(m, u.key) ELSE MapWith(m, u.key, u.prev[1])

\* rollback_to(marker) of a recorded map: replay the undo records in reverse
\* down to the marker.
RECURSIVE HistoryRollbackMap(_, _)
HistoryRollbackMap(rec, marker) ==
    IF Len(rec.history) <= marker
    THEN rec
    ELSE HistoryRollbackMap(
             [inner |-> UndoMap(rec.inner, rec.history[Len(rec.history)]),
              history |-> SubSeq(rec.history, 1, Len(rec.history) - 1)],
             marker)

\* rollback_to(marker) of a recorded Vec.
RECURSIVE HistoryRollbackVec(_, _)
HistoryRollbackVec(rec, marker) ==
    IF Len(rec.history) <= marker
    THEN rec
    ELSE HistoryRollbackVec(
             [inner |-> SubSeq(rec.inner, 1, Len(rec.inner) - 1),
              history |-> SubSeq(rec.history, 1, Len(rec.history) - 1)],
             marker)

(* ----------------------------- conversions ------------------------------ *)
\* u256_to_h256: the big-endian digits of the hash.
u256_to_h256(num) == [i \in 1..5 |-> (num \div (16 ^ (5 - i))) % 16]

\* bytecode_len_in_words: the big-endian number in bytes 2 and 3 of the hash
\* (digits 3 and 4 here).
bytecode_len_in_words(bytecodehash) == bytecodehash[3] * 16 + bytecodehash[4]

\* bytes_to_be_words: each chunk of bytes read as one big-endian word.
bytes_to_be_words(vec) ==
    [i \in 1..(Len(vec) \div 2) |-> vec[2 * i - 1] * 16 + vec[2 * i]]

\* StoragePtr<S>::load_factory_dep
load_factory_dep(st, h256) == IF h256 \in DOMAIN st THEN st[h256] ELSE None

\* The database of a run: 0x1002A has the preimage 0x01 0x02 (two one-byte
\* words each padded to a word), 0x1001B has none.
Storage ==
    [h \in {u256_to_h256(x) : x \in Hashes} |->
        IF h = u256_to_h256(65578) THEN Some(<<0, 1, 0, 2>>) ELSE None]

(* ----------------------------- get_bytecode ----------------------------- *)
\* A get_bytecode that does not keep what it loaded.
get_bytecode_NoCache(known, st, hash) ==
    LET entry == MapGet(known.inner, hash) IN
    IF entry # None
    THEN [known |-> known, value |-> entry[1], loaded |-> <<>>, panicked |-> FALSE]
    ELSE LET dep == load_factory_dep(st, u256_to_h256(hash)) IN
         IF dep = None
         THEN [known |-> known, value |-> <<>>, loaded |-> <<hash>>, panicked |-> TRUE]
         ELSE LET value == bytes_to_be_words(dep[1]) IN
              [known |-> known, value |-> value, loaded |-> <<hash>>, panicked |-> FALSE]

\* A get_bytecode that asks storage before it looks into the cache.
get_bytecode_LoadsFirst(known, st, hash) ==
    LET entry == MapGet(known.inner, hash)
        dep == load_factory_dep(st, u256_to_h256(hash))
    IN
    IF entry # None
    THEN [known |-> known, value |-> entry[1], loaded |-> <<hash>>, panicked |-> FALSE]
    ELSE IF dep = None
         THEN [known |-> known, value |-> <<>>, loaded |-> <<hash>>, panicked |-> TRUE]
         ELSE LET value == bytes_to_be_words(dep[1]) IN
              [known |-> HistoryInsert(known, hash, value),
               value |-> value, loaded |-> <<hash>>, panicked |-> FALSE]

\* A get_bytecode that takes an absent preimage for an empty bytecode.
get_bytecode_DefaultOnMiss(known, st, hash) ==
    LET entry == MapGet(known.inner, hash) IN
    IF entry # None
    THEN [known |-> known, value |-> entry[1], loaded |-> <<>>, panicked |-> FALSE]
    ELSE LET dep == load_factory_dep(st, u256_to_h256(hash))
             value == IF dep = None THEN <<>> ELSE bytes_to_be_words(dep[1])
         IN [known |-> HistoryInsert(known, hash, value),
             value |-> value, loaded |-> <<hash>>, panicked |-> FALSE]

\* The outcome of get_bytecode: the cache afterwards, the value returned,
\* the hashes storage was asked for, and whether the call panicked.
get_bytecode(known, st, hash) ==
    LET entry == MapGet(known.inner, hash) IN
    IF entry # None
    THEN [known |-> known, value |-> entry[1], loaded |-> <<>>, panicked |-> FALSE]
    ELSE LET dep == load_factory_dep(st, u256_to_h256(hash)) IN
         IF dep = None
         THEN [known |-> known, value |-> <<>>, loaded |-> <<hash>>, panicked |-> TRUE]
         ELSE LET value == bytes_to_be_words(dep[1]) IN
              [known |-> HistoryInsert(known, hash, value),
               value |-> value, loaded |-> <<hash>>, panicked |-> FALSE]

(* ------------------------------- populate ------------------------------- *)
\* A populate that keeps the entry a hash already has.
RECURSIVE populate_KeepFirst(_, _)
populate_KeepFirst(known, bytecodes) ==
    IF bytecodes = <<>>
    THEN known
    ELSE populate_KeepFirst(
             IF bytecodes[1][1] \in DOMAIN known.inner
             THEN known
             ELSE HistoryInsert(known, bytecodes[1][1], bytecodes[1][2]),
             Tail(bytecodes))

RECURSIVE populate(_, _)
populate(known, bytecodes) ==
    IF bytecodes = <<>>
    THEN known
    ELSE populate(HistoryInsert(known, bytecodes[1][1], bytecodes[1][2]), Tail(bytecodes))

\* A get_used_bytecode_hashes that reads the keys of the cache.
get_used_bytecode_hashes_FromCache(known, ledger) == DOMAIN known.inner

\* get_used_bytecode_hashes: the keys of the ledger, whatever the cache holds.
get_used_bytecode_hashes(known, ledger) == DOMAIN ledger.inner

(* -------------------------- decommit_into_memory ------------------------ *)
\* A request log that is not appended to.
LogRequest_Skipped(requests) == requests

\* self.decommitment_requests.push(())
LogRequest(requests) == HistoryPush(requests, "unit")

\* The ledger lookup at the head of decommit_into_memory.
LedgerLookup(ledger, hash) == MapGet(ledger.inner, hash)

\* A cached branch that leaves the caller's page in the request.
CachedBranch_CallerPage(partial_query, memory_page, known, ledger) ==
    [panicked |-> FALSE,
     query |-> [partial_query EXCEPT
                    !.is_fresh = FALSE,
                    !.decommitted_length =
                        bytecode_len_in_words(u256_to_h256(partial_query.hash))],
     words |-> None,
     writes |-> <<>>,
     loaded |-> <<>>,
     known |-> known,
     ledger |-> ledger]

\* A cached branch that records the caller's page in the ledger again.
CachedBranch_Rerecords(partial_query, memory_page, known, ledger) ==
    [panicked |-> FALSE,
     query |-> [partial_query EXCEPT
                    !.is_fresh = FALSE,
                    !.memory_page = memory_page,
                    !.decommitted_length =
                        bytecode_len_in_words(u256_to_h256(partial_query.hash))],
     words |-> None,
     writes |-> <<>>,
     loaded |-> <<>>,
     known |-> known,
     ledger |-> HistoryInsert(ledger, partial_query.hash, partial_query.memory_page)]

\* The cached branch: the request as returned, no words, nothing written or
\* loaded, cache and ledger as they were.
CachedBranch(partial_query, memory_page, known, ledger) ==
    [panicked |-> FALSE,
     query |-> [partial_query EXCEPT
                    !.is_fresh = FALSE,
                    !.memory_page = memory_page,
                    !.decommitted_length =
                        bytecode_len_in_words(u256_to_h256(partial_query.hash))],
     words |-> None,
     writes |-> <<>>,
     loaded |-> <<>>,
     known |-> known,
     ledger |-> ledger]

\* The template MemoryQuery of the fresh branch.
TemplateQuery(timestamp, page_to_use) ==
    [timestamp |-> timestamp,
     location |-> [memory_type |-> "Code", page |-> page_to_use, index |-> 0],
     value |-> 0,
     value_is_pointer |-> FALSE,
     rw_flag |-> TRUE]

\* A copy loop whose indices start at 1.
RECURSIVE CopyLoop_OffByOne(_, _, _, _)
CopyLoop_OffByOne(values, i, tmp_q, monotonic_cycle_counter) ==
    IF i >= Len(values)
    THEN <<>>
    ELSE <<[cycle |-> monotonic_cycle_counter,
            query |-> [tmp_q EXCEPT !.location.index = i + 1, !.value = values[i + 1]]]>>
         \o CopyLoop_OffByOne(values, i + 1, tmp_q, monotonic_cycle_counter)

\* The copy loop: one specialized_code_query per word, with its cycle counter.
RECURSIVE CopyLoop(_, _, _, _)
CopyLoop(values, i, tmp_q, monotonic_cycle_counter) ==
    IF i >= Len(values)
    THEN <<>>
    ELSE <<[cycle |-> monotonic_cycle_counter,
            query |-> [tmp_q EXCEPT !.location.index = i, !.value = values[i + 1]]]>>
         \o CopyLoop(values, i + 1, tmp_q, monotonic_cycle_counter)

\* Words handed back in both modes.
FreshWords_Always(witness, values) == Some(values)

\* The words handed back by the fresh branch.
FreshWords(witness, values) == IF witness THEN Some(values) ELSE None

\* A ledger that is not written.
RecordPage_Skipped(ledger, hash, page) == ledger

\* self.decommitted_code_hashes.insert(partial_query.hash, page_to_use.0)
RecordPage(ledger, hash, page) == HistoryInsert(ledger, hash, page)

\* values.len() as u16
LenAsU16(values) == Len(values) % 65536

\* A fresh branch whose normal-mode loop writes nothing.
FreshBranch_NormalSkipsWrites(witness, monotonic_cycle_counter, partial_query, known, ledger, st) ==
    LET g == get_bytecode(known, st, partial_query.hash) IN
    IF g.panicked
    THEN [panicked |-> TRUE, query |-> partial_query, words |-> None, writes |-> <<>>,
          loaded |-> g.loaded, known |-> g.known, ledger |-> ledger]
    ELSE LET values == g.value
             page_to_use == partial_query.memory_page
             timestamp == partial_query.timestamp
             tmp_q == TemplateQuery(timestamp, page_to_use)
         IN [panicked |-> FALSE,
             query |-> [partial_query EXCEPT
                            !.decommitted_length = LenAsU16(values),
                            !.is_fresh = TRUE],
             words |-> FreshWords(witness, values),
             writes |-> IF witness
                        THEN CopyLoop(values, 0, tmp_q, monotonic_cycle_counter)
                        ELSE <<>>,
             loaded |-> g.loaded,
             known |-> g.known,
             ledger |-> RecordPage(ledger, partial_query.hash, page_to_use)]

\* A fresh branch that records the page before it resolves the bytecode.
FreshBranch_RecordsBeforeResolve(witness, monotonic_cycle_counter, partial_query, known, ledger, st) ==
    LET g == get_bytecode(known, st, partial_query.hash)
        recorded == RecordPage(ledger, partial_query.hash, partial_query.memory_page)
    IN
    IF g.panicked
    THEN [panicked |-> TRUE, query |-> partial_query, words |-> None, writes |-> <<>>,
          loaded |-> g.loaded, known |-> g.known, ledger |-> recorded]
    ELSE LET values == g.value
             page_to_use == partial_query.memory_page
             timestamp == partial_query.timestamp
             tmp_q == TemplateQuery(timestamp, page_to_use)
         IN [panicked |-> FALSE,
             query |-> [partial_query EXCEPT
                            !.decommitted_length = LenAsU16(values),
                            !.is_fresh = TRUE],
             words |-> FreshWords(witness, values),
             writes |-> CopyLoop(values, 0, tmp_q, monotonic_cycle_counter),
             loaded |-> g.loaded,
             known |-> g.known,
             ledger |-> recorded]

\* A fresh branch that does not keep the bytecode get_bytecode cached.
FreshBranch_ForgetsBytecode(witness, monotonic_cycle_counter, partial_query, known, ledger, st) ==
    LET g == get_bytecode(known, st, partial_query.hash) IN
    IF g.panicked
    THEN [panicked |-> TRUE, query |-> partial_query, words |-> None, writes |-> <<>>,
          loaded |-> g.loaded, known |-> known, ledger |-> ledger]
    ELSE LET values == g.value
             page_to_use == partial_query.memory_page
             timestamp == partial_query.timestamp
             tmp_q == TemplateQuery(timestamp, page_to_use)
         IN [panicked |-> FALSE,
             query |-> [partial_query EXCEPT
                            !.decommitted_length = LenAsU16(values),
                            !.is_fresh = TRUE],
             words |-> FreshWords(witness, values),
             writes |-> CopyLoop(values, 0, tmp_q, monotonic_cycle_counter),
             loaded |-> g.loaded,
             known |-> known,
             ledger |-> RecordPage(ledger, partial_query.hash, page_to_use)]

\* The fresh branch.
FreshBranch(witness, monotonic_cycle_counter, partial_query, known, ledger, st) ==
    LET g == get_bytecode(known, st, partial_query.hash) IN
    IF g.panicked
    THEN [panicked |-> TRUE, query |-> partial_query, words |-> None, writes |-> <<>>,
          loaded |-> g.loaded, known |-> g.known, ledger |-> ledger]
    ELSE LET values == g.value
             page_to_use == partial_query.memory_page
             timestamp == partial_query.timestamp
             tmp_q == TemplateQuery(timestamp, page_to_use)
         IN [panicked |-> FALSE,
             query |-> [partial_query EXCEPT
                            !.decommitted_length = LenAsU16(values),
                            !.is_fresh = TRUE],
             words |-> FreshWords(witness, values),
             writes |-> CopyLoop(values, 0, tmp_q, monotonic_cycle_counter),
             loaded |-> g.loaded,
             known |-> g.known,
             ledger |-> RecordPage(ledger, partial_query.hash, page_to_use)]

\* decommit_into_memory after the request has been logged.
decommit_into_memory(witness, monotonic_cycle_counter, partial_query, known, ledger, st) ==
    LET hit == LedgerLookup(ledger, partial_query.hash) IN
    IF hit # None
    THEN CachedBranch(partial_query, hit[1], known, ledger)
    ELSE FreshBranch(witness, monotonic_cycle_counter, partial_query, known, ledger, st)

(* -------------------------------- rollback ------------------------------ *)
\* The marker of the three journals, taken at one instant.
Marker(known, ledger, requests) ==
    [known_bytecodes |-> HistoryCheckpoint(known),
     decommitted_code_hashes |-> HistoryCheckpoint(ledger),
     decommitment_requests |-> HistoryCheckpoint(requests)]

\* A rollback that leaves known_bytecodes out.
rollback_to_NoCache(known, ledger, requests, marker) ==
    [known_bytecodes |-> known,
     decommitted_code_hashes |-> HistoryRollbackMap(ledger, marker.decommitted_code_hashes),
     decommitment_requests |-> HistoryRollbackVec(requests, marker.decommitment_requests)]

\* A rollback that leaves decommitted_code_hashes out.
rollback_to_NoLedger(known, ledger, requests, marker) ==
    [known_bytecodes |-> HistoryRollbackMap(known, marker.known_bytecodes),
     decommitted_code_hashes |-> ledger,
     decommitment_requests |-> HistoryRollbackVec(requests, marker.decommitment_requests)]

\* A rollback that undoes one record of each journal past the marker a call.
rollback_to_OneStep(known, ledger, requests, marker) ==
    [known_bytecodes |->
         HistoryRollbackMap(known, IF Len(known.history) > marker.known_bytecodes
                                   THEN Len(known.history) - 1
                                   ELSE marker.known_bytecodes),
     decommitted_code_hashes |->
         HistoryRollbackMap(ledger, IF Len(ledger.history) > marker.decommitted_code_hashes
                                    THEN Len(ledger.history) - 1
                                    ELSE marker.decommitted_code_hashes),
     decommitment_requests |->
         HistoryRollbackVec(requests, IF Len(requests.history) > marker.decommitment_requests
                                      THEN Len(requests.history) - 1
                                      ELSE marker.decommitment_requests)]

\* implement_rollback! {known_bytecodes, decommitted_code_hashes, decommitment_requests}
rollback_to(known, ledger, requests, marker) ==
    [known_bytecodes |-> HistoryRollbackMap(known, marker.known_bytecodes),
     decommitted_code_hashes |-> HistoryRollbackMap(ledger, marker.decommitted_code_hashes),
     decommitment_requests |-> HistoryRollbackVec(requests, marker.decommitment_requests)]

(* ------------------------- PubDataBytesCriterion ------------------------ *)
\* (max as f64 * percentage).round(), the percentage given in hundredths:
\* f64::round rounds half away from zero.
RoundOfShare(max, percentage) == (2 * max * percentage + 100) \div 200

\* A should_seal that looks at the block before it looks at the transaction.
should_seal_BlockFirst(self, config, block_data, tx_data) ==
    LET max_pubdata_per_l1_batch == self.max_pubdata_per_da_slot * self.num_da_slots
        reject_bound ==
            RoundOfShare(max_pubdata_per_l1_batch, config.reject_tx_at_eth_params_percentage)
        include_and_seal_bound ==
            RoundOfShare(max_pubdata_per_l1_batch, config.close_block_at_eth_params_percentage)
        block_size == block_data.execution_metrics.size + block_data.writes_metrics.size
        tx_size == IF tx_data.execution_metrics.pubdata_published = 0
                   THEN tx_data.execution_metrics.size + tx_data.writes_metrics.size
                   ELSE tx_data.execution_metrics.pubdata_published
    IN IF block_size > max_pubdata_per_l1_batch THEN "ExcludeAndSeal"
       ELSE IF tx_size > reject_bound THEN "Unexecutable"
       ELSE IF block_size > include_and_seal_bound THEN "IncludeAndSeal"
       ELSE "NoSeal"

\* PubDataBytesCriterion::should_seal. The sizes ExecutionMetrics::size and
\* DeduplicatedWritesMetrics::size compute are given with the metrics.
should_seal(self, config, block_data, tx_data) ==
    LET max_pubdata_per_l1_batch == self.max_pubdata_per_da_slot * self.num_da_slots
        reject_bound ==
            RoundOfShare(max_pubdata_per_l1_batch, config.reject_tx_at_eth_params_percentage)
        include_and_seal_bound ==
            RoundOfShare(max_pubdata_per_l1_batch, config.close_block_at_eth_params_percentage)
        block_size == block_data.execution_metrics.size + block_data.writes_metrics.size
        tx_size == IF tx_data.execution_metrics.pubdata_published = 0
                   THEN tx_data.execution_metrics.size + tx_data.writes_metrics.size
                   ELSE tx_data.execution_metrics.pubdata_published
    IN IF tx_size > reject_bound THEN "Unexecutable"
       ELSE IF block_size > max_pubdata_per_l1_batch THEN "ExcludeAndSeal"
       ELSE IF block_size > include_and_seal_bound THEN "IncludeAndSeal"
       ELSE "NoSeal"

\* The criteria, configurations (percentages in hundredths) and seal data a
\* run draws from; 100000 bytes in one slot at 95% are those of the crate's
\* test.
Criteria ==
    [max_pubdata_per_da_slot : {5, 8, 100000}, num_da_slots : {1, 2}]
Configs ==
    [reject_tx_at_eth_params_percentage : {50, 95, 100},
     close_block_at_eth_params_percentage : {50, 95}]
BlockData ==
    [execution_metrics : [size : {0, 4, 9, 17, 95001, 100001}, pubdata_published : {0}],
     writes_metrics : [size : {0, 1}]]
TxData ==
    [execution_metrics : [size : {0, 6}, pubdata_published : {0, 3, 12}],
     writes_metrics : [size : {0, 1}]]

\* The bytecode lengths a run draws from: short ones and those around the
\* capacity of the u16 decommitted_length field.
BytecodeLengths == (0..40) \cup (65530..65540)

\* A bytecode of n words.
WordsOfLength(n) == [i \in 1..n |-> i % 256]

(* ------------------------------ the machine ----------------------------- *)
\* The contents of the three collections.
Contents(known, ledger, requests) ==
    [known_bytecodes |-> known.inner,
     decommitted_code_hashes |-> ledger.inner,
     decommitment_requests |-> requests.inner]

\* What a call found when it started.
Before ==
    [contents |-> Contents(known_bytecodes, decommitted_code_hashes, decommitment_requests),
     loads |-> loads, forgotten |-> forgotten, got |-> got, populated |-> populated]

NoBefore ==
    [contents |-> Contents(HistoryRecorderDefaultMap, HistoryRecorderDefaultMap,
                           HistoryRecorderDefaultVec),
     loads |-> [h \in Hashes |-> 0], forgotten |-> EmptyMap,
     got |-> [h \in Hashes |-> None], populated |-> [h \in Hashes |-> None]]

NoRet ==
    [op |-> "new", hash |-> 0, cycle |-> 0, request |-> None, query |-> None,
     words |-> None, value |-> <<>>, writes |-> <<>>, loaded |-> <<>>,
     panicked |-> FALSE, marker |-> 0, before |-> NoBefore]

\* The number of times hash h occurs in a sequence of hashes.
RECURSIVE Count(_, _)
Count(seq, h) ==
    IF seq = <<>> THEN 0 ELSE (IF seq[1] = h THEN 1 ELSE 0) + Count(Tail(seq), h)

\* The bytecode of the last pair for hash h in a populate argument, if any.
RECURSIVE LastFor(_, _)
LastFor(bytecodes, h) ==
    IF bytecodes = <<>>
    THEN None
    ELSE IF bytecodes[Len(bytecodes)][1] = h
         THEN Some(bytecodes[Len(bytecodes)][2])
         ELSE LastFor(SubSeq(bytecodes, 1, Len(bytecodes) - 1), h)

\* The events of one decommit_into_memory in the order of its statements:
\* the push onto the request log, then on a ledger miss the resolution of
\* the bytecode, which may panic, the ledger insert, and the memory writes.
decommit_trace(hit, panicked, writes) ==
    <<"push">>
        \o (IF hit
            THEN <<>>
            ELSE IF panicked
                 THEN <<"resolve", "panic">>
                 ELSE <<"resolve", "record">> \o [i \in 1..Len(writes) |-> "write"])

\* The second oracle as constructed, and with no call made on it.
TwinNew ==
    [known_bytecodes |-> HistoryRecorderDefaultMap,
     decommitted_code_hashes |-> HistoryRecorderDefaultMap,
     decommitment_requests |-> HistoryRecorderDefaultVec,
     checkpoints |-> <<>>, status |-> "running", query |-> None, words |-> None,
     value |-> <<>>, writes |-> <<>>, calls |-> 0]

SealNotCalled == [phase |-> "idle"]
NoSized == [phase |-> "idle"]

\* DecommitterOracle::new
InitOracle ==
    /\ B \in BOOLEAN
    /\ storage = Storage
    /\ known_bytecodes = HistoryRecorderDefaultMap
    /\ decommitted_code_hashes = HistoryRecorderDefaultMap
    /\ decommitment_requests = HistoryRecorderDefaultVec
    /\ checkpoints = <<>>
    /\ status = "running"
    /\ ret = NoRet
    /\ loads = [h \in Hashes |-> 0]
    /\ steps = 0
    /\ interval = [h \in Hashes |-> <<>>]
    /\ populated = [h \in Hashes |-> None]
    /\ got = [h \in Hashes |-> None]
    /\ forgotten = EmptyMap
    /\ calls = [decommit |-> 0, rollback |-> 0]
    /\ interval_loads = [h \in Hashes |-> 0]
    /\ prev = [op |-> "new", marker |-> 0]
    /\ trace = <<>>
    /\ twin = TwinNew

Init == InitOracle /\ seal = SealNotCalled /\ sized = NoSized

\* A bytecode length, before the bytecode is populated and decommitted.
InitLen ==
    /\ InitOracle
    /\ seal = SealNotCalled
    /\ \E n \in BytecodeLengths :
           sized = [phase |-> "input", len |-> n, is_fresh |-> FALSE,
                    decommitted_length |-> 0, writes |-> 0, words |-> None]

\* A criterion, a configuration, a block and a transaction, before the call.
InitSeal ==
    /\ InitOracle
    /\ sized = NoSized
    /\ \E self \in Criteria, config \in Configs, block_data \in BlockData,
          tx_data \in TxData :
           seal = [phase |-> "input", self |-> self, config |-> config,
                   block_data |-> block_data, tx_data |-> tx_data,
                   resolution |-> "none"]

Populate(bytecodes) ==
    /\ status = "running"
    /\ steps < MaxSteps
    /\ known_bytecodes' = populate(known_bytecodes, bytecodes)
    /\ ret' = [NoRet EXCEPT !.op = "populate", !.before = Before]
    /\ steps' = steps + 1
    /\ populated' = [h \in Hashes |->
                        IF LastFor(bytecodes, h) # None THEN LastFor(bytecodes, h)
                        ELSE populated[h]]
    /\ got' = [h \in Hashes |-> IF LastFor(bytecodes, h) # None THEN None ELSE got[h]]
    /\ UNCHANGED <<B, storage, decommitted_code_hashes, decommitment_requests,
                   checkpoints, status, loads, interval, forgotten, calls>>

GetBytecode(hash) ==
    /\ status = "running"
    /\ steps < MaxSteps
    /\ LET g == get_bytecode(known_bytecodes, storage, hash) IN
         /\ known_bytecodes' = g.known
         /\ status' = IF g.panicked THEN "aborted" ELSE "running"
         /\ ret' = [NoRet EXCEPT !.op = "get_bytecode", !.hash = hash, !.value = g.value,
                                 !.loaded = g.loaded, !.panicked = g.panicked,
                                 !.before = Before]
         /\ loads' = [h \in Hashes |-> loads[h] + Count(g.loaded, h)]
         /\ got' = IF g.panicked THEN got
                   ELSE [got EXCEPT ![hash] = Some([value |-> g.value, loads |-> loads[hash]])]
    /\ steps' = steps + 1
    /\ UNCHANGED <<B, storage, decommitted_code_hashes, decommitment_requests,
                   checkpoints, interval, populated, forgotten, calls>>

Decommit(monotonic_cycle_counter, partial_query) ==
    /\ status = "running"
    /\ steps < MaxSteps
    /\ decommitment_requests' = LogRequest(decommitment_requests)
    /\ LET d == decommit_into_memory(B, monotonic_cycle_counter, partial_query,
                                     known_bytecodes, decommitted_code_hashes, storage)
           h == partial_query.hash
       IN
         /\ known_bytecodes' = d.known
         /\ decommitted_code_hashes' = d.ledger
         /\ status' = IF d.panicked THEN "aborted" ELSE "running"
         /\ ret' = [NoRet EXCEPT !.op = "decommit", !.hash = h,
                                 !.cycle = monotonic_cycle_counter,
                                 !.request = Some(partial_query),
                                 !.query = IF d.panicked THEN None ELSE Some(d.query),
                                 !.words = d.words, !.writes = d.writes,
                                 !.loaded = d.loaded, !.panicked = d.panicked,
                                 !.before = Before]
         /\ loads' = [x \in Hashes |-> loads[x] + Count(d.loaded, x)]
         /\ interval' = IF d.panicked THEN interval
                        ELSE [interval EXCEPT ![h] =
                                 Append(@, [is_fresh |-> d.query.is_fresh,
                                            writes |-> Len(d.writes),
                                            length |-> d.query.decommitted_length])]
         /\ forgotten' = IF d.panicked THEN forgotten ELSE MapWithout(forgotten, h)
    /\ steps' = steps + 1
    /\ calls' = [calls EXCEPT !.decommit = @ + 1]
    /\ UNCHANGED <<B, storage, checkpoints, populated, got>>

\* The driver takes a marker of the three journals.
Checkpoint ==
    /\ status = "running"
    /\ steps < MaxSteps
    /\ Len(checkpoints) < MaxCheckpoints
    /\ checkpoints' = Append(checkpoints,
           [marker |-> Marker(known_bytecodes, decommitted_code_hashes, decommitment_requests),
            contents |-> Contents(known_bytecodes, decommitted_code_hashes,
                                  decommitment_requests)])
    /\ ret' = [NoRet EXCEPT !.op = "checkpoint", !.marker = Len(checkpoints) + 1,
                            !.before = Before]
    /\ steps' = steps + 1
    /\ UNCHANGED <<B, storage, known_bytecodes, decommitted_code_hashes,
                   decommitment_requests, status, loads, interval, populated,
                   got, forgotten, calls>>

\* The driver rolls back to the k-th marker it holds; later markers are dropped.
Rollback(k) ==
    /\ status = "running"
    /\ steps < MaxSteps
    /\ k \in 1..Len(checkpoints)
    /\ LET r == rollback_to(known_bytecodes, decommitted_code_hashes,
                            decommitment_requests, checkpoints[k].marker)
       IN
         /\ known_bytecodes' = r.known_bytecodes
         /\ decommitted_code_hashes' = r.decommitted_code_hashes
         /\ decommitment_requests' = r.decommitment_requests
         /\ forgotten' =
                LET undone == (DOMAIN decommitted_code_hashes.inner)
                                 \ (DOMAIN checkpoints[k].contents.decommitted_code_hashes)
                IN [h \in (DOMAIN forgotten) \cup undone |->
                       IF h \in undone THEN decommitted_code_hashes.inner[h]
                       ELSE forgotten[h]]
    /\ checkpoints' = SubSeq(checkpoints, 1, k)
    /\ ret' = [NoRet EXCEPT !.op = "rollback", !.marker = k, !.before = Before]
    /\ steps' = steps + 1
    /\ interval' = [h \in Hashes |-> <<>>]
    /\ populated' = [h \in Hashes |-> None]
    /\ got' = [h \in Hashes |-> None]
    /\ calls' = [calls EXCEPT !.rollback = @ + 1]
    /\ UNCHANGED <<B, storage, status, loads>>

\* What the observer of a call notes down.
Observe ==
    /\ interval_loads' = IF ret'.op = "rollback"
                         THEN [h \in Hashes |-> 0]
                         ELSE [h \in Hashes |-> interval_loads[h] + (loads'[h] - loads[h])]
    /\ prev' = [op |-> ret.op, marker |-> ret.marker]
    /\ trace' = IF ret'.op = "decommit"
                THEN decommit_trace(LedgerLookup(decommitted_code_hashes, ret'.hash) # None,
                                    ret'.panicked, ret'.writes)
                ELSE <<>>

Next ==
    \/ \E bytecodes \in PopulateInputs :
           Populate(bytecodes) /\ Observe /\ UNCHANGED <<twin, seal, sized>>
    \/ \E hash \in Hashes :
           GetBytecode(hash) /\ Observe /\ UNCHANGED <<twin, seal, sized>>
    \/ \E i \in DecommitInputs :
           /\ Decommit(i[4], [hash |-> i[1], memory_page |-> i[2], timestamp |-> i[3],
                              is_fresh |-> FALSE, decommitted_length |-> 0])
           /\ Observe
           /\ UNCHANGED <<twin, seal, sized>>
    \/ Checkpoint /\ Observe /\ UNCHANGED <<twin, seal, sized>>
    \/ \E k \in 1..MaxCheckpoints :
           Rollback(k) /\ Observe /\ UNCHANGED <<twin, seal, sized>>

Spec == Init /\ [][Next]_vars

(* ------------------- two oracles that differ in mode only --------------- *)
\* The calls of the driver, made on the second oracle, whose mode is ~B.
TwinCalled(t) ==
    [t EXCEPT !.query = None, !.words = None, !.value = <<>>, !.writes = <<>>,
              !.calls = @ + 1]

TwinPopulate(bytecodes) ==
    twin' = IF twin.status # "running" THEN twin
            ELSE [TwinCalled(twin) EXCEPT
                      !.known_bytecodes = populate(twin.known_bytecodes, bytecodes)]

TwinGetBytecode(hash) ==
    twin' = IF twin.status # "running" THEN twin
            ELSE LET g == get_bytecode(twin.known_bytecodes, storage, hash) IN
                 [TwinCalled(twin) EXCEPT
                      !.known_bytecodes = g.known,
                      !.value = g.value,
                      !.status = IF g.panicked THEN "aborted" ELSE "running"]

TwinDecommit(monotonic_cycle_counter, partial_query) ==
    twin' = IF twin.status # "running" THEN twin
            ELSE LET d == decommit_into_memory(~B, monotonic_cycle_counter, partial_query,
                                               twin.known_bytecodes,
                                               twin.decommitted_code_hashes, storage)
                 IN [TwinCalled(twin) EXCEPT
                         !.decommitment_requests = LogRequest(twin.decommitment_requests),
                         !.known_bytecodes = d.known,
                         !.decommitted_code_hashes = d.ledger,
                         !.query = IF d.panicked THEN None ELSE Some(d.query),
                         !.words = d.words,
                         !.writes = d.writes,
                         !.status = IF d.panicked THEN "aborted" ELSE "running"]

TwinCheckpoint ==
    twin' = IF twin.status # "running" THEN twin
            ELSE [TwinCalled(twin) EXCEPT
                      !.checkpoints =
                          Append(@, Marker(twin.known_bytecodes, twin.decommitted_code_hashes,
                                           twin.decommitment_requests))]

TwinRollback(k) ==
    twin' = IF twin.status # "running" \/ k > Len(twin.checkpoints) THEN twin
            ELSE LET r == rollback_to(twin.known_bytecodes, twin.decommitted_code_hashes,
                                      twin.decommitment_requests, twin.checkpoints[k])
                 IN [TwinCalled(twin) EXCEPT
                         !.known_bytecodes = r.known_bytecodes,
                         !.decommitted_code_hashes = r.decommitted_code_hashes,
                         !.decommitment_requests = r.decommitment_requests,
                         !.checkpoints = SubSeq(@, 1, k)]

NextModes ==
    \/ \E bytecodes \in PopulateInputs :
           /\ Populate(bytecodes) /\ Observe
           /\ TwinPopulate(bytecodes)
           /\ UNCHANGED <<seal, sized>>
    \/ \E hash \in Hashes :
           /\ GetBytecode(hash) /\ Observe
           /\ TwinGetBytecode(hash)
           /\ UNCHANGED <<seal, sized>>
    \/ \E i \in DecommitInputs :
           LET q == [hash |-> i[1], memory_page |-> i[2], timestamp |-> i[3],
                     is_fresh |-> FALSE, decommitted_length |-> 0]
           IN /\ Decommit(i[4], q) /\ Observe
              /\ TwinDecommit(i[4], q)
              /\ UNCHANGED <<seal, sized>>
    \/ /\ Checkpoint /\ Observe
       /\ TwinCheckpoint
       /\ UNCHANGED <<seal, sized>>
    \/ \E k \in 1..MaxCheckpoints :
           /\ Rollback(k) /\ Observe
           /\ TwinRollback(k)
           /\ UNCHANGED <<seal, sized>>

SpecModes == Init /\ [][NextModes]_vars

(* ---------------------- fresh decommits of any length ------------------- *)
\* The number of specialized_code_query calls of either copy loop: one per
\* element of values.iter().enumerate().
WritesIssued(values) == Len(values)

\* A new oracle is populated with a bytecode of the drawn length for 0x1001B
\* and decommits it: the fresh branch resolves the bytecode, sets
\* decommitted_length and runs the copy loop.
DecommitSized ==
    /\ sized.phase = "input"
    /\ LET hash == 65563
           known == populate(HistoryRecorderDefaultMap,
                             << <<hash, WordsOfLength(sized.len)>> >>)
           hit == LedgerLookup(HistoryRecorderDefaultMap, hash)
           g == get_bytecode(known, storage, hash)
           values == g.value
       IN sized' = [sized EXCEPT
                       !.phase = "decommitted",
                       !.is_fresh = (hit = None),
                       !.decommitted_length = LenAsU16(values),
                       !.writes = WritesIssued(values),
                       !.words = IF B THEN Some(Len(values)) ELSE None]
    /\ UNCHANGED <<B, storage, known_bytecodes, decommitted_code_hashes,
                   decommitment_requests, checkpoints, status, ret, loads, steps,
                   interval, populated, got, forgotten, calls, interval_loads,
                   prev, trace, twin, seal>>

NextLen == DecommitSized

SpecLen == InitLen /\ [][NextLen]_vars

(* ------------------------- the sealing criterion ------------------------ *)
\* One call of should_seal on the drawn arguments.
ShouldSeal ==
    /\ seal.phase = "input"
    /\ seal' = [seal EXCEPT
                   !.phase = "called",
                   !.resolution = should_seal(seal.self, seal.config,
                                              seal.block_data, seal.tx_data)]
    /\ UNCHANGED <<B, storage, known_bytecodes, decommitted_code_hashes,
                   decommitment_requests, checkpoints, status, ret, loads, steps,
                   interval, populated, got, forgotten, calls, interval_loads,
                   prev, trace, twin, sized>>

NextSeal == ShouldSeal

SpecSeal == InitSeal /\ [][NextSeal]_vars

(* ------------------------------- properties ----------------------------- *)
\* The last call was a decommit_into_memory that returned.
Decommitted == ret.op = "decommit" /\ ~ret.panicked
\* The ledger, the cache and the request log as the last call found them.
LedgerBefore == ret.before.contents.decommitted_code_hashes
CacheBefore == ret.before.contents.known_bytecodes
RequestsBefore == ret.before.contents.decommitment_requests
\* The last call was a decommit of a hash the ledger already held.
CachedCall == Decommitted /\ ret.hash \in DOMAIN LedgerBefore
\* The last call was a decommit classified fresh.
FreshCall == Decommitted /\ ret.query[1].is_fresh

\* C1: once the ledger records H -> P, no populate, get_bytecode, decommit or
\* checkpoint changes that record, and every decommit of H returns
\* memory_page = P whatever page the caller supplied.
C1_RecordedPageIsReported ==
    /\ ret.op \in {"populate", "get_bytecode", "decommit", "checkpoint"}
          => \A h \in DOMAIN LedgerBefore :
                 MapGet(decommitted_code_hashes.inner, h) = Some(LedgerBefore[h])
    /\ CachedCall => ret.query[1].memory_page = LedgerBefore[ret.hash]

\* A cached decommit whose caller supplied another page than the recorded
\* one, after a populate of the same hash.
C1_Witness ==
    /\ CachedCall
    /\ ret.request[1].memory_page # LedgerBefore[ret.hash]
    /\ ret.query[1].memory_page = LedgerBefore[ret.hash]
    /\ ret.before.populated[ret.hash] # None

\* C2: among the decommits of one hash since the last rollback only the
\* first can be classified fresh and only the first can write memory, so at
\* most one is fresh and at most one writes.
C2_FreshAtMostOncePerInterval ==
    \A h \in Hashes :
        \A i \in 2..Len(interval[h]) :
            ~interval[h][i].is_fresh /\ interval[h][i].writes = 0

\* Three decommits of one hash in one interval, the first fresh and writing.
C2_Witness ==
    \E h \in Hashes :
        /\ Len(interval[h]) >= 3
        /\ interval[h][1].is_fresh
        /\ interval[h][1].writes > 0

\* C3: a fresh decommit returns is_fresh = true and the caller's page, and
\* issues one write per word of the bytecode, the i-th at (caller's page,
\* index i) with the i-th word, the call's cycle counter and the request's
\* timestamp.
C3_FreshWritesEveryWordInOrder ==
    FreshCall =>
        LET words == known_bytecodes.inner[ret.hash] IN
        /\ ret.query[1].memory_page = ret.request[1].memory_page
        /\ ret.query[1].hash = ret.request[1].hash
        /\ Len(ret.writes) = Len(words)
        /\ \A i \in 1..Len(ret.writes) :
              /\ ret.writes[i].cycle = ret.cycle
              /\ ret.writes[i].query.timestamp = ret.request[1].timestamp
              /\ ret.writes[i].query.location.memory_type = "Code"
              /\ ret.writes[i].query.location.page = ret.request[1].memory_page
              /\ ret.writes[i].query.location.index = i - 1
              /\ ret.writes[i].query.value = words[i]
              /\ ret.writes[i].query.rw_flag

\* A fresh decommit of a two-word bytecode loaded from storage.
C3_Witness ==
    /\ FreshCall
    /\ Len(ret.writes) = 2
    /\ ret.loaded = <<ret.hash>>
    /\ ret.writes[2].query.value = 2

\* C4: a decommit of a hash the ledger holds returns is_fresh = false and no
\* words, writes nothing, asks storage nothing, and leaves the cache and the
\* ledger as they were; the request log grows by the one entry.
C4_CachedTouchesOnlyRequestLog ==
    CachedCall =>
        /\ ~ret.query[1].is_fresh
        /\ ret.words = None
        /\ ret.writes = <<>>
        /\ ret.loaded = <<>>
        /\ loads = ret.before.loads
        /\ known_bytecodes.inner = CacheBefore
        /\ decommitted_code_hashes.inner = LedgerBefore
        /\ Len(decommitment_requests.inner) = Len(RequestsBefore) + 1

\* A cached decommit in witness mode of a hash whose bytecode was replaced
\* in the cache after its fresh decommit.
C4_Witness ==
    /\ CachedCall
    /\ B
    /\ ret.before.populated[ret.hash] # None
    /\ ret.request[1].memory_page = LedgerBefore[ret.hash]

\* C5: every decommit call, fresh, cached or aborting, appends exactly one
\* entry to the request log, populate and get_bytecode leave it alone, and
\* until the first rollback its length is the number of decommit calls.
C5_RequestLogCountsDecommits ==
    /\ ret.op = "decommit"
          => Len(decommitment_requests.inner) = Len(RequestsBefore) + 1
    /\ ret.op \in {"populate", "get_bytecode", "checkpoint"}
          => decommitment_requests.inner = RequestsBefore
    /\ calls.rollback = 0 => Len(decommitment_requests.inner) = calls.decommit

\* A cached decommit that is the third decommit call of a run without rollback.
C5_Witness ==
    /\ CachedCall
    /\ calls.rollback = 0
    /\ calls.decommit = 3
    /\ Len(decommitment_requests.inner) = 3

\* C6: a rollback to a checkpoint leaves the cache, the ledger and the
\* request log, all three, with the contents they had when the checkpoint
\* was taken.
C6_RollbackRestoresAllThree ==
    ret.op = "rollback" =>
        Contents(known_bytecodes, decommitted_code_hashes, decommitment_requests)
            = checkpoints[ret.marker].contents

\* A rollback that restored a cache entry a populate had overwritten, and
\* that shortened the ledger and the request log.
C6_Witness ==
    /\ ret.op = "rollback"
    /\ \E h \in DOMAIN known_bytecodes.inner :
           /\ h \in DOMAIN CacheBefore
           /\ CacheBefore[h] # known_bytecodes.inner[h]
    /\ LedgerBefore # decommitted_code_hashes.inner
    /\ RequestsBefore # decommitment_requests.inner

\* The last call was a decommit of a hash whose fresh decommit a rollback undid.
ForgottenCall == ret.op = "decommit" /\ ret.hash \in DOMAIN ret.before.forgotten
\* The last call was classified fresh, recorded the page of its request and
\* wrote every word of the bytecode.
FreshAgain ==
    /\ ~ret.panicked
    /\ ret.query[1].is_fresh
    /\ ret.query[1].memory_page = ret.request[1].memory_page
    /\ MapGet(decommitted_code_hashes.inner, ret.hash) = Some(ret.request[1].memory_page)
    /\ ret.hash \in DOMAIN known_bytecodes.inner
    /\ Len(ret.writes) = Len(known_bytecodes.inner[ret.hash])
    /\ \A i \in 1..Len(ret.writes) :
          /\ ret.writes[i].query.value = known_bytecodes.inner[ret.hash][i]
          /\ ret.writes[i].query.location.page = ret.request[1].memory_page
          /\ ret.writes[i].query.location.index = i - 1
\* The hash of the last call had a bytecode in the cache or in storage.
Resolvable ==
    \/ ret.hash \in DOMAIN CacheBefore
    \/ load_factory_dep(storage, u256_to_h256(ret.hash)) # None

\* C7 as stated: the next decommit of a hash whose fresh decommit was rolled
\* back is fresh again, records the page of the new request and writes the
\* whole bytecode again.
C7_ForgottenHashIsFreshAgain == ForgottenCall => FreshAgain

\* C7 as amended: it is so when the bytecode of the hash is still in the cache
\* or in storage after the rollback; when the rollback also removed the only
\* copy of the bytecode (a populate made after the checkpoint), the call
\* aborts, with nothing recorded and nothing written.
C7_ForgottenHashIsFreshAgainIfResolvable ==
    ForgottenCall =>
        IF Resolvable
        THEN FreshAgain
        ELSE /\ ret.panicked
             /\ ret.writes = <<>>
             /\ decommitted_code_hashes.inner = LedgerBefore

\* A decommit, after the rollback, at another page than the one the undone
\* decommit had used.
C7_Witness ==
    /\ ForgottenCall
    /\ FreshAgain
    /\ ret.request[1].memory_page # ret.before.forgotten[ret.hash]
    /\ Len(ret.writes) > 0

\* C8: a get_bytecode of a hash that follows another one, with no rollback
\* and no populate of the hash between them, returns the same words, and
\* storage is asked for the hash at most once from the first call on; the
\* second call asks nothing.
C8_GetBytecodeTwice ==
    (ret.op = "get_bytecode" /\ ret.before.got[ret.hash] # None) =>
        /\ ~ret.panicked
        /\ ret.value = ret.before.got[ret.hash][1].value
        /\ loads[ret.hash] - ret.before.got[ret.hash][1].loads <= 1
        /\ ret.loaded = <<>>

\* The second get_bytecode of a hash that the first one loaded from storage.
C8_Witness ==
    /\ ret.op = "get_bytecode"
    /\ ret.before.got[ret.hash] # None
    /\ loads[ret.hash] - ret.before.got[ret.hash][1].loads = 1
    /\ ret.value = <<1, 2>>

\* C9: get_bytecode of a hash that was populated returns the bytecode of the
\* latest populate for it and does not ask storage, whatever storage holds.
C9_PopulatedTakesPrecedence ==
    (ret.op = "get_bytecode" /\ ret.before.populated[ret.hash] # None) =>
        /\ ~ret.panicked
        /\ ret.value = ret.before.populated[ret.hash][1]
        /\ ret.loaded = <<>>
        /\ loads = ret.before.loads

\* get_bytecode of a hash that storage has another preimage for and that was
\* populated twice with different bytecodes.
C9_Witness ==
    /\ ret.op = "get_bytecode"
    /\ ret.before.populated[ret.hash] # None
    /\ load_factory_dep(storage, u256_to_h256(ret.hash)) # None
    /\ bytes_to_be_words(load_factory_dep(storage, u256_to_h256(ret.hash))[1]) # ret.value
    /\ \E i \in 1..Len(known_bytecodes.history) :
           /\ known_bytecodes.history[i].key = ret.hash
           /\ known_bytecodes.history[i].prev # None
           /\ known_bytecodes.history[i].prev[1] \notin {ret.value, <<1, 2>>}
    /\ loads[ret.hash] = 0

\* C10: in witness mode a fresh decommit returns the words it wrote, in
\* order; in normal mode it returns none; a cached decommit returns none in
\* both modes.
C10_WordsOnlyWhenFreshInWitnessMode ==
    Decommitted =>
        IF ret.query[1].is_fresh /\ B
        THEN ret.words = Some([i \in 1..Len(ret.writes) |-> ret.writes[i].query.value])
        ELSE ret.words = None

\* A fresh decommit in witness mode that returned two words.
C10_Witness ==
    /\ FreshCall
    /\ B
    /\ ret.words # None
    /\ Len(ret.words[1]) = 2

\* C11: two oracles that differ in mode only and are given the same calls
\* issue the same memory writes, return the same requests and bytecodes, and
\* hold the same cache, ledger and request log (undo logs included) after
\* every call; only the words returned by a fresh decommit differ.
C11_ModesDifferOnlyInReturnedWords ==
    /\ twin.calls = steps
    /\ twin.known_bytecodes = known_bytecodes
    /\ twin.decommitted_code_hashes = decommitted_code_hashes
    /\ twin.decommitment_requests = decommitment_requests
    /\ twin.status = status
    /\ twin.writes = ret.writes
    /\ twin.query = ret.query
    /\ twin.value = ret.value
    /\ IF FreshCall
       THEN /\ (IF B THEN ret.words ELSE twin.words)
                   = Some([i \in 1..Len(ret.writes) |-> ret.writes[i].query.value])
            /\ (IF B THEN twin.words ELSE ret.words) = None
       ELSE twin.words = ret.words

\* A fresh decommit, after a rollback, that wrote two words on both oracles
\* and returned words on one of them only.
C11_Witness ==
    /\ FreshCall
    /\ twin.calls = steps
    /\ calls.rollback > 0
    /\ Len(twin.writes) = 2
    /\ twin.writes = ret.writes
    /\ twin.words # ret.words

\* C12 as stated: load_factory_dep is called at most once per hash in the
\* whole life of the oracle, rollbacks included.
C12_LoadedAtMostOnceEver == \A h \in Hashes : loads[h] <= 1

\* C12 as amended: load_factory_dep is called at most once per hash between
\* two rollbacks, so at most once more than there were rollbacks; a rollback
\* that removes the cached entry makes the next request load it again.
C12_LoadedAtMostOncePerInterval ==
    \A h \in Hashes :
        /\ interval_loads[h] <= 1
        /\ loads[h] <= calls.rollback + 1

\* A hash loaded from storage a second time, after a rollback forgot it.
C12_Witness ==
    \E h \in Hashes :
        /\ loads[h] = 2
        /\ interval_loads[h] = 1
        /\ calls.rollback = 1
        /\ h \in DOMAIN known_bytecodes.inner

\* C13: a decommit or get_bytecode call panics exactly when its hash is in
\* neither the cache nor storage, and the panic ends the run without a
\* returned value; every other call returns, a decommit with its request.
C13_FailsOnlyWhenHashIsNowhere ==
    /\ ret.op \in {"decommit", "get_bytecode"}
          => /\ ret.panicked <=> ~Resolvable
             /\ ret.panicked => status = "aborted" /\ ret.query = None /\ ret.words = None
             /\ (~ret.panicked /\ ret.op = "decommit") => ret.query # None
    /\ ret.op \notin {"decommit", "get_bytecode"} => ~ret.panicked
    /\ status = "aborted" <=> ret.panicked

\* A decommit that panicked on a hash found nowhere, after a cached decommit
\* of another hash had returned.
C13_Witness ==
    /\ ret.op = "decommit"
    /\ ret.panicked
    /\ ~Resolvable
    /\ status = "aborted"
    /\ \E h \in Hashes : Len(interval[h]) = 2

\* What get_used_bytecode_hashes returns in the current state.
UsedHashes == get_used_bytecode_hashes(known_bytecodes, decommitted_code_hashes)

\* C14: get_used_bytecode_hashes returns exactly the keys of the ledger, which
\* are the hashes decommitted and not rolled back: a populate, a get_bytecode,
\* a checkpoint or a panicked decommit leaves the result as it was, a decommit
\* that returns adds its hash, and a rollback restores the result the
\* checkpoint saw.
C14_UsedHashesAreLedgerKeys ==
    /\ UsedHashes = DOMAIN decommitted_code_hashes.inner
    /\ ret.op = "new" => UsedHashes = {}
    /\ (ret.op \in {"populate", "get_bytecode", "checkpoint"} \/ ret.panicked)
          => UsedHashes = DOMAIN LedgerBefore
    /\ Decommitted => UsedHashes = (DOMAIN LedgerBefore) \cup {ret.hash}
    /\ ret.op = "rollback"
          => UsedHashes = DOMAIN checkpoints[ret.marker].contents.decommitted_code_hashes

\* One hash decommitted and used, another populated and resolved through
\* get_bytecode only, cached and not used.
C14_Witness ==
    \E h, g \in Hashes :
        /\ h \in UsedHashes
        /\ g \notin UsedHashes
        /\ g \in DOMAIN known_bytecodes.inner
        /\ populated[g] # None
        /\ ret.op = "get_bytecode"
        /\ ret.hash = g

\* C15: a cached decommit of a hash reports the decommitted_length its fresh
\* decommit reported, which is the number of words that decommit wrote,
\* whatever bytecode populate or storage put in the cache for the hash.
C15_CachedLengthIsFreshLength ==
    \A h \in Hashes :
        \A i \in 2..Len(interval[h]) :
            interval[h][1].is_fresh
               => /\ interval[h][i].length = interval[h][1].length
                  /\ interval[h][i].length = interval[h][1].writes

\* The last two calls were rollbacks to the same checkpoint.
RolledBackTwice ==
    /\ ret.op = "rollback"
    /\ prev.op = "rollback"
    /\ prev.marker = ret.marker

\* C16: a rollback to a checkpoint straight after a rollback to the same
\* checkpoint leaves the cache, the ledger and the request log as the first
\* rollback left them.
C16_RollbackTwiceIsRollbackOnce ==
    RolledBackTwice
       => Contents(known_bytecodes, decommitted_code_hashes, decommitment_requests)
             = ret.before.contents

\* Two rollbacks in a row to one checkpoint, the first of which took a
\* decommitted hash out of the ledger and its request out of the log.
C16_Witness ==
    /\ RolledBackTwice
    /\ DOMAIN forgotten # {}
    /\ calls.rollback = 2
    /\ calls.decommit > Len(decommitment_requests.inner)
    /\ Contents(known_bytecodes, decommitted_code_hashes, decommitment_requests)
          = ret.before.contents

\* The quantities the criterion's answer is stated in.
SealMax == seal.self.max_pubdata_per_da_slot * seal.self.num_da_slots
SealRejectBound == RoundOfShare(SealMax, seal.config.reject_tx_at_eth_params_percentage)
SealCloseBound == RoundOfShare(SealMax, seal.config.close_block_at_eth_params_percentage)
SealBlockSize ==
    seal.block_data.execution_metrics.size + seal.block_data.writes_metrics.size
SealTxSize ==
    IF seal.tx_data.execution_metrics.pubdata_published # 0
    THEN seal.tx_data.execution_metrics.pubdata_published
    ELSE seal.tx_data.execution_metrics.size + seal.tx_data.writes_metrics.size

\* C17: should_seal answers Unexecutable when the transaction size exceeds
\* the reject bound, whatever the block size; otherwise ExcludeAndSeal when
\* the block size exceeds max, IncludeAndSeal when it exceeds the close bound
\* but not max, and NoSeal when it is at most the close bound; the
\* transaction size is pubdata_published when non-zero and the sum of the two
\* metrics' sizes otherwise.
C17_SealDecisionTable ==
    seal.phase = "called"
       => /\ SealTxSize > SealRejectBound => seal.resolution = "Unexecutable"
          /\ SealTxSize <= SealRejectBound
                => /\ SealBlockSize > SealMax => seal.resolution = "ExcludeAndSeal"
                   /\ (SealBlockSize > SealCloseBound /\ SealBlockSize <= SealMax)
                         => seal.resolution = "IncludeAndSeal"
                   /\ SealBlockSize <= SealCloseBound => seal.resolution = "NoSeal"

\* A call answered Unexecutable on the published pubdata of the transaction
\* although its two sizes are zero and the block is past max.
C17_Witness ==
    /\ seal.phase = "called"
    /\ seal.resolution = "Unexecutable"
    /\ seal.tx_data.execution_metrics.pubdata_published > SealRejectBound
    /\ seal.tx_data.execution_metrics.size + seal.tx_data.writes_metrics.size = 0
    /\ SealBlockSize > SealMax

\* C18: a fresh decommit reports as decommitted_length the number of words
\* of the bytecode, which is the number of memory writes it issued, for
\* every length of the bytecode, those past the capacity of the 16-bit field
\* included.
C18_FreshLengthIsWordCount ==
    (sized.phase = "decommitted" /\ sized.is_fresh)
       => /\ sized.writes = sized.len
          /\ sized.decommitted_length = sized.len

\* The positions of an event in the trace of the last call.
TraceAt(event) == {i \in 1..Len(trace) : trace[i] = event}

\* C19: a decommit records its hash in the ledger at most once, and only on
\* the fresh path, after the bytecode has been resolved and before the first
\* memory write; a hash is recorded at most once between two rollbacks; and a
\* decommit whose resolution panics has appended its request but has recorded
\* nothing and written nothing.
C19_RecordOnceAfterResolveBeforeWrites ==
    /\ ret.op = "decommit"
          => /\ Cardinality(TraceAt("record")) <= 1
             /\ TraceAt("record") # {} <=> FreshCall
             /\ TraceAt("record") # {}
                   <=> decommitted_code_hashes.inner # LedgerBefore
             /\ FreshCall => ret.hash \notin DOMAIN LedgerBefore
             /\ Cardinality(TraceAt("write")) = Len(ret.writes)
             /\ \A i \in TraceAt("record") :
                    /\ \E j \in TraceAt("resolve") : j < i
                    /\ \A j \in TraceAt("write") : i < j
                    /\ TraceAt("panic") = {}
             /\ ret.panicked
                   => /\ trace = <<"push", "resolve", "panic">>
                      /\ decommitted_code_hashes.inner = LedgerBefore
                      /\ ret.writes = <<>>
                      /\ decommitment_requests.inner # RequestsBefore
    /\ \A h \in Hashes :
           Cardinality({i \in 1..Len(interval[h]) : interval[h][i].is_fresh}) <= 1

\* A decommit that panicked in resolution after its request was appended,
\* in a run where another hash had been recorded and written.
C19_Witness ==
    /\ ret.op = "decommit"
    /\ ret.panicked
    /\ trace = <<"push", "resolve", "panic">>
    /\ Len(decommitment_requests.inner) = Len(RequestsBefore) + 1
    /\ ret.hash \notin DOMAIN decommitted_code_hashes.inner
    /\ \E h \in Hashes :
           /\ Len(interval[h]) >= 1
           /\ interval[h][1].is_fresh
           /\ interval[h][1].writes > 0

\* C20: every hash in the ledger is a key of the cache, in every state
\* populate, get_bytecode, decommit, checkpoint and the joint rollback of the
\* three collections reach; and populate and get_bytecode leave the ledger
\* as it was and write nothing to memory.
C20_LedgerKeysAreCacheKeys ==
    /\ DOMAIN decommitted_code_hashes.inner \subseteq DOMAIN known_bytecodes.inner
    /\ ret.op \in {"populate", "get_bytecode"}
          => /\ decommitted_code_hashes.inner = LedgerBefore
             /\ ret.writes = <<>>

\* A populate after a rollback, in a state whose ledger holds a hash and
\* whose cache holds that hash and another.
C20_Witness ==
    /\ ret.op = "populate"
    /\ calls.rollback >= 1
    /\ DOMAIN decommitted_code_hashes.inner # {}
    /\ DOMAIN decommitted_code_hashes.inner # DOMAIN known_bytecodes.inner
    /\ DOMAIN decommitted_code_hashes.inner \subseteq DOMAIN known_bytecodes.inner
    /\ DOMAIN CacheBefore # DOMAIN known_bytecodes.inner

====
